---- MODULE Spec2Model ----
(***************************************************************************)
(* Model of public/app.js: camera initialisation, the lazily loaded and    *)
(* memoized OCR engine, the capture -> OCR -> extraction pipeline of       *)
(* handleCapture, and the pure identifier extractor.                       *)
(*                                                                         *)
(* JavaScript runs each handler to completion, so one action is the code   *)
(* that runs between two suspension points (await of the script load,      *)
(* await of the recognition call, await of the camera stream).             *)
(*                                                                         *)
(* Strings the code inspects character by character (recognized text, the  *)
(* output buffer) are sequences of one-character strings; status messages, *)
(* which the code only assigns, are TLA+ strings.  A JavaScript value that *)
(* may be null is a record [isNull, chars].                                *)
(***************************************************************************)
EXTENDS Integers, Sequences, FiniteSets, TLC

VARIABLES
    camPc,                \* position of initCamera: "start", "requesting", "done"
    srcObject,            \* video.srcObject is bound to a stream
    videoReady,           \* video.videoWidth and video.videoHeight are non-zero
    disabled,             \* captureButton.disabled
    status,               \* statusMessage: [message, type]
    output,               \* resultTextarea.value
    tesseractPresent,     \* window.Tesseract?.recognize is callable
    tesseractLoadPromise, \* 0 for null, else the index in loads of the memoized promise
    loads,                \* the promises created by the load IIFE, one loadScript call each
    inv,                  \* the handleCapture invocations made so far
    recognizeCalls,       \* number of Tesseract.recognize calls made
    calls,                \* direct callers of ensureTesseractLoaded (loader specification)
    rawText,              \* input of extractAssetId (extractor specification)
    assetId,              \* its result
    xpc,                  \* position of the extractor specification
    canvas,               \* the invocation whose frame the capture canvas holds, 0 for none
    camError              \* error.name of the rejected getUserMedia, "none" if none

vars == <<camPc, srcObject, videoReady, disabled, status, output, tesseractPresent,
          tesseractLoadPromise, loads, inv, recognizeCalls, calls, rawText, assetId, xpc,
          canvas, camError>>

appVars == <<camPc, srcObject, videoReady, disabled, status, output, tesseractPresent,
             tesseractLoadPromise, loads, inv, recognizeCalls, canvas, camError>>

(***************************************************************************)
(* Bounds                                                                  *)
(***************************************************************************)
MaxCaptures == 3    \* clicks on the capture button in one run
NCallers == 3       \* concurrent direct callers of ensureTesseractLoaded
MaxWs == 2          \* whitespace runs interspersed in one identifier

(***************************************************************************)
(* JavaScript values                                                       *)
(***************************************************************************)
Null == [isNull |-> TRUE, chars |-> <<>>]
Str(s) == [isNull |-> FALSE, chars |-> s]

\* !value for a string-or-null value: null and "" are falsy
Falsy(v) == v.isNull \/ v.chars = <<>>

\* \s of a JavaScript regular expression, restricted to the characters in use
IsWhitespace(c) == c \in {" ", "\t", "\n", "\r", "\f"}

\* \d of a JavaScript regular expression
IsDigit(c) == c \in {"0", "1", "2", "3", "4", "5", "6", "7", "8", "9"}

\* String.prototype.trim
RECURSIVE TrimStart(_)
TrimStart(s) ==
    IF s = <<>> THEN <<>>
    ELSE IF IsWhitespace(Head(s)) THEN TrimStart(Tail(s)) ELSE s

RECURSIVE TrimEnd(_)
TrimEnd(s) ==
    IF s = <<>> THEN <<>>
    ELSE IF IsWhitespace(s[Len(s)]) THEN TrimEnd(SubSeq(s, 1, Len(s) - 1)) ELSE s

Trim(s) == TrimEnd(TrimStart(s))

(***************************************************************************)
(* Identifier Extractor                                                    *)
(***************************************************************************)
Lit(c) == [kind |-> "lit", set |-> {c}]
SepClass == [kind |-> "class", set |-> {"-", "_"}]
DigitClass == [kind |-> "digit", set |-> {}]

\* /71080[-_]\d{4}[-_]\d{4}/ as its sequence of one-character tokens
ASSET_ID_REGEX ==
    <<Lit("7"), Lit("1"), Lit("0"), Lit("8"), Lit("0"), SepClass,
      DigitClass, DigitClass, DigitClass, DigitClass, SepClass,
      DigitClass, DigitClass, DigitClass, DigitClass>>

TokenMatches(tok, c) == IF tok.kind = "digit" THEN IsDigit(c) ELSE c \in tok.set

\* the regular expression matches s starting at index i
MatchesAt(re, s, i) ==
    /\ i + Len(re) - 1 <= Len(s)
    /\ \A k \in 1..Len(re) : TokenMatches(re[k], s[i + k - 1])

\* String.prototype.match with a non-global expression: scan start positions
\* from the left and return the first match, or null
RECURSIVE MatchFrom(_, _, _)
MatchFrom(re, s, i) ==
    IF i + Len(re) - 1 > Len(s) THEN Null
    ELSE IF MatchesAt(re, s, i) THEN Str(SubSeq(s, i, i + Len(re) - 1))
    ELSE MatchFrom(re, s, i + 1)

RECURSIVE MatchBackFrom(_, _, _)
MatchBackFrom(re, s, i) ==
    IF i < 1 THEN Null
    ELSE IF MatchesAt(re, s, i) THEN Str(SubSeq(s, i, i + Len(re) - 1))
    ELSE MatchBackFrom(re, s, i - 1)

RegexMatch_Last(s, re) == MatchBackFrom(re, s, Len(s))

RegexMatch(s, re) == MatchFrom(re, s, 1)

\* rawText.replace(/\s+/g, '')
StripWhitespace(s) == SelectSeq(s, LAMBDA c : ~IsWhitespace(c))

extractAssetId_NoStrip(text) ==
    IF Falsy(text) THEN Null ELSE RegexMatch(text.chars, ASSET_ID_REGEX)

extractAssetId(text) ==
    IF Falsy(text) THEN Null
    ELSE LET normalized == StripWhitespace(text.chars)
         IN  RegexMatch(normalized, ASSET_ID_REGEX)

(***************************************************************************)
(* Status line (setStatus) and the messages the code assigns.  The         *)
(* ellipsis character of the source is written "..." here.                 *)
(***************************************************************************)
Status(message, type) == [message |-> message, type |-> type]

\* setStatus(message, type = 'info')
setStatus(message, type) == status' = Status(message, type)

MSG_UNSUPPORTED == "Camera access is not supported in this browser."
MSG_CAMERA_READY == "Camera ready. Align the Asset ID and press Capture."
MSG_DENIED == "Camera access was denied. Please allow camera permissions and reload."
MSG_NO_DEVICE == "No suitable camera device was found."
MSG_CAMERA_FAILED == "Unable to access the camera. Please try again."
MSG_LOADING == "Loading OCR engine..."
MSG_PROCESSING == "Processing image..."
MSG_NOT_READY == "Camera is not ready yet. Please wait a moment."
MSG_SUCCESS == "Asset ID detected successfully."
MSG_NOT_FOUND == "No Asset ID found. Please ensure the code matches 71080-YYYY-NNNN."
MSG_LOAD_FAILED ==
    "Unable to load the OCR engine. Please verify the static assets are available."
MSG_OCR_FAILED == "OCR processing failed. Please try again."
MSG_UNEXPECTED == "Unexpected error during OCR."
MSG_SCRIPT_FAILED == "Failed to load script: vendor/tesseract/tesseract.min.js"
MSG_NOT_INITIALIZED == "OCR engine did not initialize correctly."

\* Math.round(m.progress * 100), the ratio m.progress given in thousandths
RoundPercent(permille) == (permille + 5) \div 10

\* `Recognizing text... ${Math.round(m.progress * 100)}%`
RecognizingMessage(permille) ==
    "Recognizing text... " \o ToString(RoundPercent(permille)) \o "%"

(***************************************************************************)
(* Values thrown and rejected                                              *)
(***************************************************************************)
\* new Error(message)
Error(message) == [isError |-> TRUE, message |-> message]
\* a rejection value that is not an Error object
NonError(text) == [isError |-> FALSE, message |-> text]
NoError == [isError |-> FALSE, message |-> "none"]

(***************************************************************************)
(* Inputs from the environment                                             *)
(***************************************************************************)
\* error.name of a rejected getUserMedia
CameraErrorNames == {"NotAllowedError", "NotFoundError", "OverconstrainedError", "AbortError"}

\* text recognized by the engine
TextSpaced ==
    <<"7", " ", "1", " ", "0", " ", "8", " ", "0", "-", "2", "0", "2", "4", "\n",
      "-", "0", "0", "0", "1">>
TextNoId == <<"A", "B", "C", "1", "2", "3", "4", "5">>
TextOtherId ==
    <<"7", "1", "0", "8", "0", "_", "0", "0", "0", "1", "_", "2", "0", "2", "4", "\n">>
RecognizedTexts == {TextSpaced, TextNoId, TextOtherId, <<>>}

\* values Tesseract.recognize rejects with
RecognizeRejections ==
    { Error("NetworkError when attempting to fetch resource."),
      Error(""),
      NonError("worker terminated") }

\* messages passed to the logger callback
ProgressEvents ==
    [status : {"recognizing text", "loading language traineddata"},
     progress : {0, 495, 1000}]

(***************************************************************************)
(* Initial state: the page has loaded, the click listener is registered    *)
(* and initCamera() is about to run.                                       *)
(***************************************************************************)
NoCall == [pc |-> "idle", load |-> 0, result |-> "none"]

InitApp ==
    /\ camPc = "start"
    /\ srcObject = FALSE
    /\ videoReady = FALSE
    /\ disabled = FALSE
    /\ status = Status("", "info")
    /\ output = <<>>
    /\ tesseractPresent = FALSE
    /\ tesseractLoadPromise = 0
    /\ loads = <<>>
    /\ inv = <<>>
    /\ recognizeCalls = 0
    /\ calls = [c \in 1..NCallers |-> NoCall]
    /\ canvas = 0
    /\ camError = "none"

Init ==
    /\ InitApp
    /\ rawText = Null
    /\ assetId = Null
    /\ xpc = "off"

(***************************************************************************)
(* Camera Session Manager                                                  *)
(***************************************************************************)
\* initCamera up to its await
InitCamera(supported) ==
    /\ camPc = "start"
    /\ IF ~supported
       THEN /\ setStatus(MSG_UNSUPPORTED, "error")
            /\ disabled' = TRUE
            /\ camPc' = "done"
       ELSE /\ camPc' = "requesting"
            /\ UNCHANGED <<status, disabled>>
    /\ UNCHANGED <<srcObject, videoReady, output, tesseractPresent, tesseractLoadPromise,
                   loads, inv, recognizeCalls, calls, rawText, assetId, xpc,
                   canvas, camError>>

\* getUserMedia resolved: the rest of the try block
CameraGranted ==
    /\ camPc = "requesting"
    /\ srcObject' = TRUE
    /\ setStatus(MSG_CAMERA_READY, "info")
    /\ camPc' = "done"
    /\ UNCHANGED <<videoReady, disabled, output, tesseractPresent, tesseractLoadPromise,
                   loads, inv, recognizeCalls, calls, rawText, assetId, xpc,
                   canvas, camError>>

CameraErrorMessage_NoOverconstrained(name) ==
    IF name = "NotAllowedError" THEN MSG_DENIED
    ELSE IF name = "NotFoundError" THEN MSG_NO_DEVICE
    ELSE MSG_CAMERA_FAILED

CameraErrorMessage(name) ==
    IF name = "NotAllowedError" THEN MSG_DENIED
    ELSE IF name = "NotFoundError" \/ name = "OverconstrainedError" THEN MSG_NO_DEVICE
    ELSE MSG_CAMERA_FAILED

CameraFailed_NoDisable(name) ==
    /\ camPc = "requesting"
    /\ setStatus(CameraErrorMessage(name), "error")
    /\ camPc' = "done"
    /\ camError' = name
    /\ UNCHANGED <<srcObject, videoReady, disabled, output, tesseractPresent,
                   tesseractLoadPromise, loads, inv, recognizeCalls, calls, rawText,
                   assetId, xpc,
                   canvas>>

\* getUserMedia rejected: the catch block
CameraFailed(name) ==
    /\ camPc = "requesting"
    /\ setStatus(CameraErrorMessage(name), "error")
    /\ disabled' = TRUE
    /\ camPc' = "done"
    /\ camError' = name
    /\ UNCHANGED <<srcObject, videoReady, output, tesseractPresent, tesseractLoadPromise,
                   loads, inv, recognizeCalls, calls, rawText, assetId, xpc,
                   canvas>>

\* the bound stream delivers its first frame: videoWidth and videoHeight become non-zero
VideoFrameDecoded ==
    /\ srcObject
    /\ ~videoReady
    /\ videoReady' = TRUE
    /\ UNCHANGED <<camPc, srcObject, disabled, status, output, tesseractPresent,
                   tesseractLoadPromise, loads, inv, recognizeCalls, calls, rawText,
                   assetId, xpc,
                   canvas, camError>>

(***************************************************************************)
(* Recognition Engine Loader                                               *)
(***************************************************************************)
\* a promise of the load IIFE: its state, the Error it rejected with, and the
\* underlying failure it passed to console.error
PendingLoad == [state |-> "pending", error |-> NoError, logged |-> NoError]

\* ensureTesseractLoaded up to its return; k is the promise the caller then
\* awaits: 0 for the handle returned at once, else an index in loads
ensureTesseractLoaded_NoMemo(k) ==
    IF tesseractPresent
    THEN /\ k = 0
         /\ UNCHANGED <<tesseractLoadPromise, loads, status>>
    ELSE /\ k = Len(loads) + 1
         /\ loads' = Append(loads, PendingLoad)
         /\ tesseractLoadPromise' = k
         /\ setStatus(MSG_LOADING, "info")

ensureTesseractLoaded_StatusFirst(k) ==
    /\ setStatus(MSG_LOADING, "info")
    /\ IF tesseractPresent
       THEN /\ k = 0
            /\ UNCHANGED <<tesseractLoadPromise, loads>>
       ELSE IF tesseractLoadPromise = 0
       THEN /\ k = Len(loads) + 1
            /\ loads' = Append(loads, PendingLoad)
            /\ tesseractLoadPromise' = k
       ELSE /\ k = tesseractLoadPromise
            /\ UNCHANGED <<tesseractLoadPromise, loads>>

ensureTesseractLoaded(k) ==
    IF tesseractPresent
    THEN /\ k = 0
         /\ UNCHANGED <<tesseractLoadPromise, loads, status>>
    ELSE IF tesseractLoadPromise = 0
    THEN \* the load IIFE up to await loadScript(TESSERACT_SRC)
         /\ k = Len(loads) + 1
         /\ loads' = Append(loads, PendingLoad)
         /\ tesseractLoadPromise' = k
         /\ setStatus(MSG_LOADING, "info")
    ELSE /\ k = tesseractLoadPromise
         /\ UNCHANGED <<tesseractLoadPromise, loads, status>>

LoadFailure_RawCause(cause) == [state |-> "rejected", error |-> cause, logged |-> cause]

\* the catch block of the load IIFE: every cause becomes the same Error
LoadFailure(cause) ==
    [state |-> "rejected", error |-> Error(MSG_LOAD_FAILED), logged |-> cause]

\* script.onload: loadScript resolves and the IIFE checks window.Tesseract?.recognize;
\* exposes tells whether the script installed the capability
ScriptLoaded(k, exposes) ==
    /\ k \in 1..Len(loads)
    /\ loads[k].state = "pending"
    /\ tesseractPresent' = (tesseractPresent \/ exposes)
    /\ loads' = [loads EXCEPT ![k] =
                    IF tesseractPresent'
                    THEN [state |-> "fulfilled", error |-> NoError, logged |-> NoError]
                    ELSE LoadFailure(Error(MSG_NOT_INITIALIZED))]
    /\ UNCHANGED <<camPc, srcObject, videoReady, disabled, status, output,
                   tesseractLoadPromise, inv, recognizeCalls, calls, rawText, assetId, xpc,
                   canvas, camError>>

\* script.onerror: loadScript rejects
ScriptError(k) ==
    /\ k \in 1..Len(loads)
    /\ loads[k].state = "pending"
    /\ loads' = [loads EXCEPT ![k] = LoadFailure(Error(MSG_SCRIPT_FAILED))]
    /\ UNCHANGED <<camPc, srcObject, videoReady, disabled, status, output, tesseractPresent,
                   tesseractLoadPromise, inv, recognizeCalls, calls, rawText, assetId, xpc,
                   canvas, camError>>

\* the awaited promise k has settled
Settled(k) == IF k = 0 THEN TRUE ELSE loads[k].state # "pending"
Resolved(k) == IF k = 0 THEN TRUE ELSE loads[k].state = "fulfilled"

(***************************************************************************)
(* Capture Orchestrator and Recognition Invoker                            *)
(***************************************************************************)
NoOcr == [kind |-> "none", text |-> <<>>, error |-> NoError]
Invocation(pc, load, ocr) == [pc |-> pc, load |-> load, ocr |-> ocr]

InFlight == {i \in 1..Len(inv) : inv[i].pc # "done"}

\* the catch block of runOcr: what runOcr throws for a caught value
runOcrThrows(error) == IF error.isError THEN error ELSE Error(MSG_OCR_FAILED)

CatchStatus_NoFallback(error) == Status(error.message, "error")

\* the catch block of handleCapture
CatchStatus(error) ==
    Status(IF error.message # "" THEN error.message ELSE MSG_UNEXPECTED, "error")

\* click on the capture button (no click event is dispatched on a disabled
\* button): handleCapture up to the first await of runOcr.  Sizing the canvas,
\* drawing a video element that has decoded frames and encoding the canvas of
\* a camera stream do not raise, so frame capture has no failing branch here.
handleCapture_NoDisable ==
    /\ camPc # "start"
    /\ ~disabled
    /\ Len(inv) < MaxCaptures
    /\ IF ~videoReady
       THEN /\ setStatus(MSG_NOT_READY, "warning")
            /\ inv' = Append(inv, Invocation("done", 0,
                                 [kind |-> "notReady", text |-> <<>>, error |-> NoError]))
            /\ UNCHANGED <<disabled, canvas, tesseractLoadPromise, loads>>
       ELSE /\ UNCHANGED disabled
            /\ canvas' = Len(inv) + 1
            /\ \E k \in 0..(Len(loads) + 1) :
                  /\ ensureTesseractLoaded(k)
                  /\ inv' = Append(inv, Invocation("awaitEngine", k, NoOcr))
    /\ UNCHANGED <<camPc, srcObject, videoReady, output, tesseractPresent, recognizeCalls,
                   calls, rawText, assetId, xpc,
                   camError>>

handleCapture_NoGuard ==
    /\ camPc # "start"
    /\ ~disabled
    /\ Len(inv) < MaxCaptures
    /\ disabled' = TRUE
    /\ canvas' = Len(inv) + 1
    /\ \E k \in 0..(Len(loads) + 1) :
          /\ ensureTesseractLoaded(k)
          /\ inv' = Append(inv, Invocation("awaitEngine", k, NoOcr))
    /\ UNCHANGED <<camPc, srcObject, videoReady, output, tesseractPresent, recognizeCalls,
                   calls, rawText, assetId, xpc, camError>>

handleCapture ==
    /\ camPc # "start"
    /\ ~disabled
    /\ Len(inv) < MaxCaptures
    /\ IF ~videoReady
       THEN /\ setStatus(MSG_NOT_READY, "warning")
            /\ inv' = Append(inv, Invocation("done", 0,
                                 [kind |-> "notReady", text |-> <<>>, error |-> NoError]))
            /\ UNCHANGED <<disabled, canvas, tesseractLoadPromise, loads>>
       ELSE /\ disabled' = TRUE
            \* the frame is drawn and encoded, runOcr calls ensureTesseractLoaded
            /\ canvas' = Len(inv) + 1
            /\ \E k \in 0..(Len(loads) + 1) :
                  /\ ensureTesseractLoaded(k)
                  /\ inv' = Append(inv, Invocation("awaitEngine", k, NoOcr))
    /\ UNCHANGED <<camPc, srcObject, videoReady, output, tesseractPresent, recognizeCalls,
                   calls, rawText, assetId, xpc,
                   camError>>

EngineReady_NoAwait(i) ==
    /\ i \in 1..Len(inv)
    /\ inv[i].pc = "awaitEngine"
    /\ setStatus(MSG_PROCESSING, "info")
    /\ recognizeCalls' = recognizeCalls + 1
    /\ inv' = [inv EXCEPT ![i].pc = "awaitRecognize"]
    /\ UNCHANGED <<camPc, srcObject, videoReady, disabled, output, tesseractPresent,
                   tesseractLoadPromise, loads, calls, rawText, assetId, xpc,
                   canvas, camError>>

\* await ensureTesseractLoaded() resolved: runOcr up to await Tesseract.recognize
EngineReady(i) ==
    /\ i \in 1..Len(inv)
    /\ inv[i].pc = "awaitEngine"
    /\ Resolved(inv[i].load)
    /\ setStatus(MSG_PROCESSING, "info")
    /\ recognizeCalls' = recognizeCalls + 1
    /\ inv' = [inv EXCEPT ![i].pc = "awaitRecognize"]
    /\ UNCHANGED <<camPc, srcObject, videoReady, disabled, output, tesseractPresent,
                   tesseractLoadPromise, loads, calls, rawText, assetId, xpc,
                   canvas, camError>>

\* await ensureTesseractLoaded() rejected: catch of runOcr, then catch and
\* finally of handleCapture
EngineFailed(i) ==
    /\ i \in 1..Len(inv)
    /\ inv[i].pc = "awaitEngine"
    /\ Settled(inv[i].load) /\ ~Resolved(inv[i].load)
    /\ LET error == runOcrThrows(loads[inv[i].load].error)
       IN  /\ status' = CatchStatus(error)
           /\ inv' = [inv EXCEPT ![i] = Invocation("done", @.load,
                          [kind |-> "loadFailed", text |-> <<>>, error |-> error])]
    /\ disabled' = FALSE
    /\ UNCHANGED <<camPc, srcObject, videoReady, output, tesseractPresent,
                   tesseractLoadPromise, loads, recognizeCalls, calls, rawText, assetId, xpc,
                   canvas, camError>>

\* the logger callback of Tesseract.recognize, called while the call is pending
Progress(i, m) ==
    /\ i \in 1..Len(inv)
    /\ inv[i].pc = "awaitRecognize"
    /\ IF m.status = "recognizing text"
       THEN setStatus(RecognizingMessage(m.progress), "info")
       ELSE UNCHANGED status
    /\ UNCHANGED <<camPc, srcObject, videoReady, disabled, output, tesseractPresent,
                   tesseractLoadPromise, loads, inv, recognizeCalls, calls, rawText,
                   assetId, xpc,
                   canvas, camError>>

\* the output written when an identifier was found
AppendedOutput_Replace(value, id) == id

AppendedOutput(value, id) ==
    LET existing == Trim(value)
    IN  IF existing # <<>> THEN existing \o <<"\n">> \o id ELSE id

RecognizeResolved_NoWarning(i, text) ==
    /\ i \in 1..Len(inv)
    /\ inv[i].pc = "awaitRecognize"
    /\ LET found == extractAssetId(Str(text))
       IN  IF ~Falsy(found)
           THEN /\ output' = AppendedOutput(output, found.chars)
                /\ setStatus(MSG_SUCCESS, "info")
           ELSE UNCHANGED <<status, output>>
    /\ disabled' = FALSE
    /\ inv' = [inv EXCEPT ![i] = Invocation("done", @.load,
                   [kind |-> "text", text |-> text, error |-> NoError])]
    /\ UNCHANGED <<camPc, srcObject, videoReady, tesseractPresent, tesseractLoadPromise,
                   loads, recognizeCalls, calls, rawText, assetId, xpc, canvas, camError>>

\* Tesseract.recognize resolved with data.text = text: the rest of the try
\* block of handleCapture, then finally
RecognizeResolved(i, text) ==
    /\ i \in 1..Len(inv)
    /\ inv[i].pc = "awaitRecognize"
    /\ LET found == extractAssetId(Str(text))
       IN  IF ~Falsy(found)
           THEN /\ output' = AppendedOutput(output, found.chars)
                /\ setStatus(MSG_SUCCESS, "info")
           ELSE /\ setStatus(MSG_NOT_FOUND, "warning")
                /\ UNCHANGED output
    /\ disabled' = FALSE
    /\ inv' = [inv EXCEPT ![i] = Invocation("done", @.load,
                   [kind |-> "text", text |-> text, error |-> NoError])]
    /\ UNCHANGED <<camPc, srcObject, videoReady, tesseractPresent, tesseractLoadPromise,
                   loads, recognizeCalls, calls, rawText, assetId, xpc,
                   canvas, camError>>

RecognizeRejected_NoFinally(i, reason) ==
    /\ i \in 1..Len(inv)
    /\ inv[i].pc = "awaitRecognize"
    /\ status' = CatchStatus(runOcrThrows(reason))
    /\ inv' = [inv EXCEPT ![i] = Invocation("done", @.load,
                   [kind |-> "rejected", text |-> <<>>, error |-> reason])]
    /\ UNCHANGED <<camPc, srcObject, videoReady, disabled, output, tesseractPresent,
                   tesseractLoadPromise, loads, recognizeCalls, calls, rawText, assetId, xpc,
                   canvas, camError>>

\* Tesseract.recognize rejected with reason: catch of runOcr, then catch and
\* finally of handleCapture
RecognizeRejected(i, reason) ==
    /\ i \in 1..Len(inv)
    /\ inv[i].pc = "awaitRecognize"
    /\ status' = CatchStatus(runOcrThrows(reason))
    /\ disabled' = FALSE
    /\ inv' = [inv EXCEPT ![i] = Invocation("done", @.load,
                   [kind |-> "rejected", text |-> <<>>, error |-> reason])]
    /\ UNCHANGED <<camPc, srcObject, videoReady, output, tesseractPresent,
                   tesseractLoadPromise, loads, recognizeCalls, calls, rawText, assetId, xpc,
                   canvas, camError>>

Next ==
    \/ \E supported \in BOOLEAN : InitCamera(supported)
    \/ CameraGranted
    \/ \E name \in CameraErrorNames : CameraFailed(name)
    \/ VideoFrameDecoded
    \/ handleCapture
    \/ \E k \in 1..Len(loads) : \E exposes \in BOOLEAN : ScriptLoaded(k, exposes)
    \/ \E k \in 1..Len(loads) : ScriptError(k)
    \/ \E i \in 1..Len(inv) : EngineReady(i)
    \/ \E i \in 1..Len(inv) : EngineFailed(i)
    \/ \E i \in 1..Len(inv) : \E m \in ProgressEvents : Progress(i, m)
    \/ \E i \in 1..Len(inv) : \E text \in RecognizedTexts : RecognizeResolved(i, text)
    \/ \E i \in 1..Len(inv) : \E reason \in RecognizeRejections : RecognizeRejected(i, reason)

Spec == Init /\ [][Next]_vars

(***************************************************************************)
(* Properties of the capture pipeline, checked under Spec                  *)
(***************************************************************************)
\* invocation i returns in this step
Completes(i) ==
    /\ i \in 1..Len(inv')
    /\ inv'[i].pc = "done"
    /\ IF i <= Len(inv) THEN inv[i].pc # "done" ELSE TRUE

\* C1: capture is single-flight: at most one handleCapture invocation is past
\* the readiness guard and not yet returned, and while one is, the capture
\* button is disabled, so that a click starts nothing.
C1_SingleFlight ==
    /\ Cardinality(InFlight) <= 1
    /\ InFlight # {} => disabled

\* a second capture is awaiting recognition after a first one went through the pipeline
C1_Witness ==
    \E i \in InFlight :
        /\ inv[i].pc = "awaitRecognize"
        /\ \E j \in 1..(i - 1) : inv[j].pc = "done" /\ inv[j].ocr.kind # "notReady"

\* C2: whenever a handleCapture invocation returns (identifier found, none
\* found, camera not ready, engine load failed, recognition failed) the
\* capture button is enabled in the state right after.
C2_ReenabledOnExit ==
    [][\A i \in 1..MaxCaptures : Completes(i) => ~disabled']_vars

\* captures have ended as not ready, as a failed recognition and as a recognized text
C2_Witness ==
    /\ ~disabled
    /\ \E i, j, k \in 1..Len(inv) :
        /\ inv[i].pc = "done" /\ inv[i].ocr.kind = "notReady"
        /\ inv[j].pc = "done" /\ inv[j].ocr.kind = "rejected"
        /\ inv[k].pc = "done" /\ inv[k].ocr.kind = "text"

\* runOcr is entered in this step and calls ensureTesseractLoaded
CallsEnsure ==
    /\ Len(inv') = Len(inv) + 1
    /\ inv'[Len(inv')].pc = "awaitEngine"

\* the memoized load promise has rejected
LoadHasFailed ==
    /\ tesseractLoadPromise # 0
    /\ loads[tesseractLoadPromise].state = "rejected"

\* C4: a failed engine load is not cached: the first call of
\* ensureTesseractLoaded after a failed load starts a new load attempt.
C4_FailedLoadRetried ==
    [][(LoadHasFailed /\ ~tesseractPresent /\ CallsEnsure)
           => (Len(loads') = Len(loads) + 1 /\ loads'[Len(loads')].state = "pending")]_vars

\* initCamera has returned without binding a stream
CameraInitFailed == camPc = "done" /\ ~srcObject

\* C5: once camera initialisation has failed the capture button is disabled,
\* no handleCapture invocation has passed the readiness guard, and neither an
\* engine load nor a recognition has been started.
C5_NoCaptureAfterCameraFailure ==
    CameraInitFailed =>
        /\ disabled
        /\ \A i \in 1..Len(inv) : inv[i].pc = "done" /\ inv[i].ocr.kind = "notReady"
        /\ loads = <<>>
        /\ tesseractLoadPromise = 0
        /\ recognizeCalls = 0

\* permission was denied after the user had already clicked once
C5_Witness ==
    /\ CameraInitFailed
    /\ status = Status(MSG_DENIED, "error")
    /\ Len(inv) > 0

\* C6: when the recognition call rejects, whatever the rejection value, the
\* status after the capture is the generic OCR-failure message with error
\* severity.
C6_GenericOcrFailure ==
    [][\A i \in 1..MaxCaptures :
          (Completes(i) /\ inv'[i].ocr.kind = "rejected")
              => status' = Status(MSG_OCR_FAILED, "error")]_vars

IsPrefix(a, b) == Len(a) <= Len(b) /\ SubSeq(b, 1, Len(a)) = a

\* the buffer after one more identifier was accepted
WithEntry(buffer, id) == IF buffer = <<>> THEN id ELSE buffer \o <<"\n">> \o id

\* C7: the output buffer is append-only: every step keeps the old content as
\* a prefix; a capture that finds an identifier adds exactly that identifier
\* as a new newline-separated entry, and a capture that finds none or fails
\* leaves the buffer as it was.
C7_AppendOnly ==
    [][/\ IsPrefix(output, output')
       /\ \A i \in 1..MaxCaptures :
             Completes(i) =>
                 LET found == IF inv'[i].ocr.kind = "text"
                              THEN extractAssetId(Str(inv'[i].ocr.text)) ELSE Null
                 IN  output' = IF found.isNull THEN output
                               ELSE WithEntry(output, found.chars)]_vars

\* two identifiers are in the buffer and a later capture failed
C7_Witness ==
    /\ \E n \in 1..Len(output) : output[n] = "\n"
    /\ \E i \in 1..Len(inv) : inv[i].pc = "done" /\ inv[i].ocr.kind = "rejected"

\* the status a completed capture should leave, given what happened in it
OutcomeStatusOk(ocr, st) ==
    IF ocr.kind = "text"
    THEN IF extractAssetId(Str(ocr.text)).isNull
         THEN st = Status(MSG_NOT_FOUND, "warning")
         ELSE st = Status(MSG_SUCCESS, "info")
    ELSE IF ocr.kind = "loadFailed"
    THEN st = Status(MSG_LOAD_FAILED, "error")
    ELSE IF ocr.kind = "rejected"
    THEN /\ st.type = "error"
         /\ IF ocr.error.isError /\ ocr.error.message # ""
            THEN st.message = ocr.error.message
            ELSE st.message \in {MSG_OCR_FAILED, MSG_UNEXPECTED}
    ELSE TRUE

\* C10: the status left by a completed capture reflects its outcome: the
\* success message with info severity when an identifier was found, the
\* "No Asset ID found" message with warning severity when the text held
\* none, and error severity with the failure's message, or a generic
\* fallback when it has none, when a step failed.
C10_StatusReflectsOutcome ==
    [][\A i \in 1..MaxCaptures :
          Completes(i) => OutcomeStatusOk(inv'[i].ocr, status')]_vars

\* a capture read "ABC12345", one found an identifier and one failed
C10_Witness ==
    /\ ~disabled
    /\ \E i, j, k \in 1..Len(inv) :
          /\ inv[i].pc = "done" /\ inv[i].ocr.kind = "text" /\ inv[i].ocr.text = TextNoId
          /\ inv[j].pc = "done" /\ inv[j].ocr.kind = "text" /\ inv[j].ocr.text = TextSpaced
          /\ inv[k].pc = "done" /\ inv[k].ocr.kind = "rejected"

\* C12: once the engine is loaded it stays available, and a later call of
\* ensureTesseractLoaded returns the handle with no side effect: no loadScript
\* call, no status change, no change of the memoized load promise.
C12_LoadedEngineStays ==
    [][tesseractPresent =>
          /\ tesseractPresent'
          /\ CallsEnsure =>
                /\ loads' = loads
                /\ tesseractLoadPromise' = tesseractLoadPromise
                /\ status' = status
                /\ inv'[Len(inv')].load = 0]_vars

\* a capture made after the one successful load is being handed the handle
C12_Witness ==
    /\ tesseractPresent
    /\ Len(loads) = 1
    /\ \E i \in 2..Len(inv) : inv[i].pc = "awaitEngine" /\ inv[i].load = 0

\* the messages of the underlying causes of a load failure
CauseMessages == {MSG_SCRIPT_FAILED, MSG_NOT_INITIALIZED}

\* invocation i is awaiting a load promise that has rejected
AwaitsFailedLoad(i) ==
    /\ i <= Len(inv)
    /\ inv[i].pc = "awaitEngine"
    /\ inv[i].load # 0
    /\ loads[inv[i].load].state = "rejected"

\* C13: every engine-load failure, whether the script failed to load or
\* loaded without exposing recognize, ends the capture that started or shared
\* the load with the one message "Unable to load the OCR engine. ..." and
\* error severity; the text of the underlying cause is never the status.
C13_SingleLoadError ==
    [][/\ status'.message \notin CauseMessages
       /\ \A i \in 1..MaxCaptures :
             (AwaitsFailedLoad(i) /\ Completes(i))
                 => status' = Status(MSG_LOAD_FAILED, "error")]_vars

\* the script loaded without exposing recognize, and the capture that started
\* the load and a later one both ended with the load error
C13_Witness ==
    /\ Len(loads) = 1
    /\ loads[1].logged = Error(MSG_NOT_INITIALIZED)
    /\ status = Status(MSG_LOAD_FAILED, "error")
    /\ \E i, j \in 1..Len(inv) :
          /\ i < j
          /\ inv[i].pc = "done" /\ inv[i].ocr.kind = "loadFailed"
          /\ inv[j].pc = "done" /\ inv[j].ocr.kind = "loadFailed"

\* the positions of an invocation, in the order the code goes through them
PcRank(pc) == IF pc = "awaitEngine" THEN 1 ELSE IF pc = "awaitRecognize" THEN 2 ELSE 3

\* C15: the steps of one invocation run in order.  An invocation starts by
\* disabling the button and capturing its frame; Tesseract.recognize is called
\* only for an invocation whose frame is on the canvas and whose awaited
\* engine promise has resolved; the output buffer changes only in the step in
\* which a pending recognition returns its text, by the identifier extracted
\* from that text; the button is re-enabled only by the step that ends the
\* invocation; and no invocation moves backwards.
C15_StepsInOrder ==
    [][/\ CallsEnsure => (disabled' /\ canvas' = Len(inv'))
       /\ recognizeCalls' # recognizeCalls =>
             \E i \in 1..Len(inv) :
                 /\ inv[i].pc = "awaitEngine" /\ inv'[i].pc = "awaitRecognize"
                 /\ Resolved(inv[i].load) /\ tesseractPresent
                 /\ canvas = i
                 /\ disabled /\ disabled'
       /\ output' # output =>
             \E i \in 1..Len(inv) :
                 /\ inv[i].pc = "awaitRecognize" /\ Completes(i)
                 /\ inv'[i].ocr.kind = "text"
                 /\ ~extractAssetId(Str(inv'[i].ocr.text)).isNull
       /\ (disabled /\ ~disabled') => \E i \in 1..Len(inv) : Completes(i)
       /\ \A i \in 1..Len(inv) :
             /\ PcRank(inv[i].pc) <= PcRank(inv'[i].pc)
             /\ inv'[i].ocr.kind \in {"text", "rejected"} => inv[i].pc # "awaitEngine"]_vars

\* a capture that started the engine load has gone through recognition and
\* extraction and has written its identifier
C15_Witness ==
    /\ output # <<>>
    /\ \E i \in 1..Len(inv) :
          /\ inv[i].pc = "done" /\ inv[i].load = 1 /\ inv[i].ocr.kind = "text"
          /\ canvas = i
    /\ ~disabled

\* handleCapture is entered in this step while the frame dimensions are zero
NotReadyClick == Len(inv') = Len(inv) + 1 /\ ~videoReady

\* C16: a capture triggered while the camera reports zero frame dimensions
\* returns at once: it sets the "Camera is not ready yet" status with warning
\* severity and changes nothing else: the button stays enabled, the output
\* buffer, the canvas and the engine load state are as before, and no engine
\* load and no recognition is started.
C16_NotReadyIsNoOp ==
    [][NotReadyClick =>
          /\ status' = Status(MSG_NOT_READY, "warning")
          /\ inv'[Len(inv')].pc = "done"
          /\ ~disabled'
          /\ UNCHANGED <<disabled, output, canvas, tesseractPresent, tesseractLoadPromise,
                         loads, recognizeCalls>>]_vars

\* the stream is bound but no frame has been decoded, and a click was rejected
C16_Witness ==
    /\ srcObject
    /\ ~videoReady
    /\ Len(inv) > 0
    /\ status = Status(MSG_NOT_READY, "warning")

\* the stream request of initCamera settles in this step
CameraSettles == camPc = "requesting" /\ camPc' = "done"

\* C17: initCamera maps each failure of the stream request to one category
\* with error severity and disables capture: NotAllowedError to the
\* permission-denied message, NotFoundError and OverconstrainedError to the
\* no-suitable-device message, anything else to the unable-to-access message;
\* on success the status is the camera-ready message and capture is enabled.
C17_CameraOutcomeMapped ==
    [][CameraSettles =>
          IF camError' = "none"
          THEN /\ srcObject'
               /\ status' = Status(MSG_CAMERA_READY, "info")
               /\ ~disabled'
          ELSE /\ ~srcObject'
               /\ disabled'
               /\ status'.type = "error"
               /\ camError' = "NotAllowedError" => status'.message = MSG_DENIED
               /\ camError' \in {"NotFoundError", "OverconstrainedError"}
                     => status'.message = MSG_NO_DEVICE
               /\ camError' \notin {"NotAllowedError", "NotFoundError", "OverconstrainedError"}
                     => status'.message = MSG_CAMERA_FAILED]_vars

\* the stream request failed as overconstrained
C17_Witness ==
    /\ camPc = "done"
    /\ camError = "OverconstrainedError"
    /\ status = Status(MSG_NO_DEVICE, "error")
    /\ disabled

\* C18: in one page session loadScript is called at most once and
\* tesseractLoadPromise is assigned at most once: once set it keeps its
\* promise, whether that load succeeded or failed.
C18_LoadedAtMostOnce ==
    [][/\ Len(loads') <= 1
       /\ tesseractLoadPromise # 0 => tesseractLoadPromise' = tesseractLoadPromise]_vars

\* the script failed to load and every capture of the run used that one load
C18_Witness ==
    /\ Len(loads) = 1
    /\ tesseractLoadPromise = 1
    /\ loads[1].logged = Error(MSG_SCRIPT_FAILED)
    /\ Len(inv) = MaxCaptures
    /\ \A i \in 1..Len(inv) : inv[i].pc = "done" /\ inv[i].load = 1

\* the messages shown while a capture is under way
TransientMessages ==
    {MSG_LOADING, MSG_PROCESSING} \cup {RecognizingMessage(m.progress) : m \in ProgressEvents}

\* a status that reports how a capture ended
IsFinalOutcome(st) ==
    \/ st \in {Status(MSG_SUCCESS, "info"), Status(MSG_NOT_FOUND, "warning"),
               Status(MSG_NOT_READY, "warning")}
    \/ st.type = "error"

\* no capture is in flight, the button is enabled and a capture has returned
Resting ==
    /\ ~disabled
    /\ InFlight = {}
    /\ \E i \in 1..Len(inv) : inv[i].pc = "done"

\* C19 as stated: whenever no capture is in flight after at least one
\* completed capture, the status is a final outcome message (success,
\* no-Asset-ID warning, camera-not-ready warning, or an error) and not a
\* transient one.
C19_RestingStatusIsOutcome ==
    Resting => (IsFinalOutcome(status) /\ status.message \notin TransientMessages)

\* C19 amended: whenever no capture is in flight after at least one completed
\* capture, the status is a final outcome message or the camera-ready message
\* of initCamera, and never a transient one.
C19_RestingStatusNotTransient ==
    Resting =>
        /\ status.message \notin TransientMessages
        /\ IsFinalOutcome(status) \/ status = Status(MSG_CAMERA_READY, "info")

\* a capture that went through recognition has ended with no identifier found
C19_Witness ==
    /\ Resting
    /\ recognizeCalls > 0
    /\ status = Status(MSG_NOT_FOUND, "warning")

\* C20: an invocation passes the readiness guard only after initCamera has
\* returned with the stream bound; so no step of initCamera happens while a
\* capture is in flight, and the button is re-enabled only in sessions whose
\* camera initialisation succeeded.
C20_CaptureAfterCameraInit ==
    [][/\ \A i \in 1..Len(inv') :
             inv'[i].ocr.kind # "notReady"
                 => (camPc = "done" /\ srcObject /\ camError = "none")
       /\ camPc' # camPc => (InFlight = {} /\ InFlight' = {})
       /\ (disabled /\ ~disabled') => (camPc = "done" /\ srcObject /\ camError = "none")]_vars

\* a click was rejected before the first frame, and a later capture is in flight
C20_Witness ==
    \E i \in InFlight : \E j \in 1..(i - 1) : inv[j].ocr.kind = "notReady"

(***************************************************************************)
(* Liveness: the capture pipeline under the assumption that every script   *)
(* load and every recognition call settles, and that a continuation whose  *)
(* awaited promise has settled is run by the event loop.                   *)
(***************************************************************************)
ScriptSettles ==
    \/ \E k \in 1..Len(loads) : \E exposes \in BOOLEAN : ScriptLoaded(k, exposes)
    \/ \E k \in 1..Len(loads) : ScriptError(k)

RecognizeSettles ==
    \/ \E i \in 1..Len(inv) : \E text \in RecognizedTexts : RecognizeResolved(i, text)
    \/ \E i \in 1..Len(inv) : \E reason \in RecognizeRejections : RecognizeRejected(i, reason)

Fairness ==
    /\ WF_vars(ScriptSettles)
    /\ WF_vars(RecognizeSettles)
    /\ WF_vars(\E i \in 1..Len(inv) : EngineReady(i))
    /\ WF_vars(\E i \in 1..Len(inv) : EngineFailed(i))

SpecLive == Init /\ [][Next]_vars /\ Fairness

\* C14: Idle is the only resting state: every invocation that has passed the
\* readiness guard eventually has returned, with no capture in flight and the
\* capture button enabled.
C14_ReturnsToIdle ==
    \A i \in 1..MaxCaptures :
        (i \in InFlight) ~> (i <= Len(inv) /\ inv[i].pc = "done" /\ InFlight = {} /\ ~disabled)

\* every capture of the run passed the guard and has returned, the last after a recognition
C14_Witness ==
    /\ Len(inv) = MaxCaptures
    /\ InFlight = {}
    /\ ~disabled
    /\ \A i \in 1..Len(inv) : inv[i].ocr.kind \in {"text", "rejected", "loadFailed"}
    /\ recognizeCalls > 0

(***************************************************************************)
(* Loader specification: ensureTesseractLoaded called from NCallers call   *)
(* sites that may overlap, with the script events of the environment.      *)
(***************************************************************************)
\* caller c calls ensureTesseractLoaded() and awaits the returned promise
CallEnsure(c) ==
    /\ calls[c].pc = "idle"
    /\ \E k \in 0..(Len(loads) + 1) :
          /\ ensureTesseractLoaded(k)
          /\ calls' = [calls EXCEPT ![c] = [pc |-> "awaiting", load |-> k, result |-> "none"]]
    /\ UNCHANGED <<camPc, srcObject, videoReady, disabled, output, tesseractPresent, inv,
                   recognizeCalls, rawText, assetId, xpc,
                   canvas, camError>>

\* the promise caller c awaits has settled: c receives the handle or the error
CallSettles(c) ==
    /\ calls[c].pc = "awaiting"
    /\ Settled(calls[c].load)
    /\ calls' = [calls EXCEPT ![c].pc = "settled",
                              ![c].result = IF Resolved(calls[c].load) THEN "handle"
                                            ELSE loads[calls[c].load].error.message]
    /\ UNCHANGED <<camPc, srcObject, videoReady, disabled, status, output, tesseractPresent,
                   tesseractLoadPromise, loads, inv, recognizeCalls, rawText, assetId, xpc,
                   canvas, camError>>

NextLoader ==
    \/ \E c \in 1..NCallers : CallEnsure(c)
    \/ \E c \in 1..NCallers : CallSettles(c)
    \/ \E k \in 1..Len(loads) : \E exposes \in BOOLEAN : ScriptLoaded(k, exposes)
    \/ \E k \in 1..Len(loads) : ScriptError(k)

SpecLoader == Init /\ [][NextLoader]_vars

\* callers whose call was made while the engine was not loaded
CalledUnloaded == {c \in 1..NCallers : calls[c].pc # "idle" /\ calls[c].load # 0}

\* C3: engine load is idempotent under concurrency: however many calls are
\* made while the engine is not loaded, at most one load is in flight,
\* loadScript has been called exactly once, and the calls that have settled
\* all settled the same way.
C3_LoadIdempotent ==
    /\ Cardinality({k \in 1..Len(loads) : loads[k].state = "pending"}) <= 1
    /\ CalledUnloaded # {} => Len(loads) = 1
    /\ \A c, d \in CalledUnloaded :
          (calls[c].pc = "settled" /\ calls[d].pc = "settled")
              => calls[c].result = calls[d].result

\* every caller called during the one load and has received its outcome
C3_Witness ==
    /\ CalledUnloaded = 1..NCallers
    /\ \A c \in 1..NCallers : calls[c].pc = "settled" /\ calls[c].result = "handle"

(***************************************************************************)
(* Extractor specification: extractAssetId applied to one input drawn from *)
(* a family of texts: identifiers with whitespace runs interspersed, near  *)
(* misses, surrounding text that may hold further identifiers, and null.   *)
(***************************************************************************)
Separators == {"-", "_"}
Year == <<"2", "0", "2", "4">>
Serial == <<"0", "0", "0", "1">>

MakeId(s1, a, s2, b) == <<"7", "1", "0", "8", "0">> \o <<s1>> \o a \o <<s2>> \o b

SampleIds == {MakeId(s1, Year, "-", Serial) : s1 \in Separators}

WhitespaceRuns == {<<" ">>, <<"\n", "\t">>}

\* w with the run ws inserted after each position in gaps
RECURSIVE Intersperse(_, _, _, _)
Intersperse(w, gaps, ws, n) ==
    IF n > Len(w) THEN <<>>
    ELSE <<w[n]>> \o (IF n \in gaps THEN ws ELSE <<>>) \o Intersperse(w, gaps, ws, n + 1)

\* the places between two characters of an identifier that receive a run
GapSets ==
    {g \in SUBSET (1..(Len(MakeId("-", Year, "-", Serial)) - 1)) : Cardinality(g) <= MaxWs}

SpacedIds == {Intersperse(w, g, ws, 1) : w \in SampleIds, g \in GapSets, ws \in WhitespaceRuns}

NearMisses ==
    { TextNoId,
      <<>>,
      <<"7", "1", "0", "8", "0", "+", "2", "0", "2", "4", "-", "0", "0", "0", "1">>,
      <<"7", "1", "0", "8", "0", "-", "2", "0", "2", "-", "0", "0", "0", "1">>,
      <<"7", "1", "0", "8", "-", "2", "0", "2", "4", "-", "0", "0", "0", "1">>,
      <<"7", "1", "0", "8", "0", "-", "2", "0", "2", "4", "-", "0", "0", " ", "1">> }

Prefixes ==
    { <<>>,
      <<"A", "B", " ">>,
      <<"7", "1", "0", "8", "0", "-", "2", "0">>,
      <<"7", "1", "0", "8", "0", "-", "0", "0", "0", "1", "-">>,
      MakeId("_", Serial, "_", Year) \o <<" ">> }

Suffixes == {<<>>, <<"5">>, <<"\n">> \o MakeId("-", Serial, "-", Serial)}

ExtractInputs ==
    {Null} \cup
    {Str(p \o c \o q) : p \in Prefixes, c \in SpacedIds \cup NearMisses \cup {TextSpaced},
                        q \in Suffixes}

InitExtract ==
    /\ InitApp
    /\ rawText \in ExtractInputs
    /\ assetId = Null
    /\ xpc = "ready"

\* assetId = extractAssetId(text)
Extract ==
    /\ xpc = "ready"
    /\ assetId' = extractAssetId(rawText)
    /\ xpc' = "done"
    /\ UNCHANGED <<appVars, calls, rawText>>

SpecExtract == InitExtract /\ [][Extract]_vars

\* w is an asset identifier: 71080, a separator, four digits, a separator, four digits
AllDigits(w) == \A n \in 1..Len(w) : IsDigit(w[n])

IsAssetId(w) ==
    /\ Len(w) = 15
    /\ SubSeq(w, 1, 5) = <<"7", "1", "0", "8", "0">>
    /\ w[6] \in Separators
    /\ AllDigits(SubSeq(w, 7, 10))
    /\ w[11] \in Separators
    /\ AllDigits(SubSeq(w, 12, 15))

\* the characters of a text after its first a - 1, without whitespace
StrippedFrom(text, a) == StripWhitespace(SubSeq(text, a, Len(text)))

\* the first 15 characters of w (all of w when it is shorter)
IdPrefix(w) == SubSeq(w, 1, IF Len(w) < 15 THEN Len(w) ELSE 15)

\* the positions of a text where a substring begins that is an asset
\* identifier with whitespace interspersed between its characters
EmbeddedStarts(v) ==
    IF v.isNull THEN {}
    ELSE {a \in 1..Len(v.chars) :
             /\ ~IsWhitespace(v.chars[a])
             /\ IsAssetId(IdPrefix(StrippedFrom(v.chars, a)))}

\* that identifier, with the whitespace removed
EmbeddedId(v, a) == IdPrefix(StrippedFrom(v.chars, a))

Least(S) == CHOOSE n \in S : \A m \in S : n <= m

\* C8 as stated: for every substring of the input that is an asset identifier
\* with whitespace interspersed, extractAssetId returns that identifier with
\* the whitespace removed.
C8_ReturnsEveryEmbeddedId ==
    xpc = "done" => \A a \in EmbeddedStarts(rawText) : assetId = Str(EmbeddedId(rawText, a))

\* C8 amended: when the input contains substrings that are asset identifiers
\* with whitespace interspersed, extractAssetId returns the leftmost of them
\* with the whitespace removed.
C8_ReturnsLeftmostEmbeddedId ==
    (xpc = "done" /\ EmbeddedStarts(rawText) # {})
        => assetId = Str(EmbeddedId(rawText, Least(EmbeddedStarts(rawText))))

\* "7 1 0 8 0-2024\n-0001" has been extracted to "71080-2024-0001"
C8_Witness ==
    /\ xpc = "done"
    /\ rawText = Str(TextSpaced)
    /\ assetId = Str(MakeId("-", Year, "-", Serial))

\* the start positions of the matches of the pattern in t
MatchStarts(t) == {n \in 1..Len(t) : IsAssetId(IdPrefix(SubSeq(t, n, Len(t))))}

\* the text the pattern is applied to
Stripped(v) == IF v.isNull THEN <<>> ELSE StripWhitespace(v.chars)

\* reference: the leftmost match of the pattern in the stripped text, or null
LeftmostMatch(v) ==
    LET t == Stripped(v)
    IN  IF MatchStarts(t) = {} THEN Null
        ELSE Str(IdPrefix(SubSeq(t, Least(MatchStarts(t)), Len(t))))

\* C9: extractAssetId is total and equal to the reference: for every input,
\* null and the empty string included, it returns the leftmost match of the
\* pattern in the whitespace-stripped text, and null exactly when the
\* stripped text has no match.
C9_EqualsReference ==
    xpc = "done" =>
        /\ assetId = LeftmostMatch(rawText)
        /\ assetId.isNull <=> MatchStarts(Stripped(rawText)) = {}

\* an input whose stripped text has several matches has been extracted
C9_Witness ==
    /\ xpc = "done"
    /\ ~assetId.isNull
    /\ Cardinality(MatchStarts(Stripped(rawText))) >= 3

(***************************************************************************)
(* Fault specification: the capture pipeline with a failure raised in one  *)
(* of the frame capture steps of handleCapture.                            *)
(***************************************************************************)
\* canvas.width/height = ..., ctx.drawImage(...), canvas.toDataURL(...)
FrameSteps == {"size", "draw", "encode"}

FrameError(step) == Error("Frame capture failed at " \o step)

\* only canvas.toDataURL is inside the try block of handleCapture
InsideTry(step) == step = "encode"

\* click on the capture button with frame dimensions known, and the frame
\* capture step throws: handleCapture up to its return
FrameCaptureFails(step) ==
    /\ camPc # "start"
    /\ ~disabled
    /\ Len(inv) < MaxCaptures
    /\ videoReady
    /\ IF InsideTry(step)
       THEN \* catch and finally of handleCapture
            /\ canvas' = Len(inv) + 1
            /\ status' = CatchStatus(FrameError(step))
            /\ disabled' = FALSE
            /\ inv' = Append(inv, Invocation("done", 0,
                         [kind |-> "frameFailed", text |-> <<>>, error |-> FrameError(step)]))
       ELSE \* the exception leaves handleCapture after captureButton.disabled = true
            /\ canvas' = IF step = "size" THEN canvas ELSE 0
            /\ disabled' = TRUE
            /\ UNCHANGED status
            /\ inv' = Append(inv, Invocation("done", 0,
                         [kind |-> "uncaught", text |-> <<>>, error |-> FrameError(step)]))
    /\ UNCHANGED <<camPc, srcObject, videoReady, output, tesseractPresent,
                   tesseractLoadPromise, loads, recognizeCalls, calls, rawText, assetId, xpc,
                   camError>>

NextFault ==
    \/ Next
    \/ \E step \in FrameSteps : FrameCaptureFails(step)

SpecFault == Init /\ [][NextFault]_vars

\* the ways a pipeline step of an invocation can have failed
FailureKinds == {"frameFailed", "uncaught", "loadFailed", "rejected"}

\* C11: a failure raised in frame capture (sizing, drawing, encoding), in the
\* recognition invoker or in the extractor is caught by handleCapture: the
\* invocation returns with an error status, the failure does not escape, and
\* the capture button is enabled.
C11_FailuresCaught ==
    [][\A i \in 1..MaxCaptures :
          (Completes(i) /\ inv'[i].ocr.kind \in FailureKinds)
              => /\ inv'[i].ocr.kind # "uncaught"
                 /\ status'.type = "error"
                 /\ ~disabled']_vars

====
